---- MODULE Spec2Model ----
(***************************************************************************)
(* Model of the qmt data-access layer: the DatabaseManager facade          *)
(* (datamanager.py) over the three adapters SQLiteDB (sqlite.py), DuckDB   *)
(* (duck.py) and PostgresDB (pgsql.py), with the primary-key metadata      *)
(* cache every adapter persists to the file 'db_cache.pkl'.                *)
(*                                                                         *)
(* One behaviour is one working directory and one database: the cache      *)
(* file and the tables persist, while the facade and its adapter may be    *)
(* constructed again (a new process).  Every public call is one action.    *)
(***************************************************************************)
EXTENDS Integers, Sequences, FiniteSets, TLC

\* Bound of the model: the most rows a table may hold.
MaxRows == 2

\* The inputs the operations are called with.
Tables == {"t1", "t2"}
Keys == {"5", "6"}
Vals == {"a", "b"}
Backends == {"sqlite", "duckdb", "postgres"}

\* SQL NULL in a row.
NULL == "null"

\* The empty dict {} (a function with an empty domain).
EmptyDict == [x \in {} |-> {}]

\* The elements of a sequence.
Range(s) == {s[i] : i \in 1..Len(s)}

\* [x for x in s if x in keep], order kept.
RECURSIVE Filter(_, _)
Filter(s, keep) ==
    IF s = <<>> THEN <<>>
    ELSE (IF Head(s) \in keep THEN <<Head(s)>> ELSE <<>>) \o Filter(Tail(s), keep)

(***************************************************************************)
(* pickle.  The cache, a dict  table -> {field -> [column, ...]},  is      *)
(* written as a sequence of opcodes and read back by a stack machine, as   *)
(* pickle does: EMPTY_DICT / EMPTY_LIST push a container, MARK opens a     *)
(* batch, SETITEMS / APPENDS fold the batch into the container under the   *)
(* mark, STOP ends the stream.                                             *)
(***************************************************************************)
Op(op, arg) == [op |-> op, arg |-> arg]

TableOrder == <<"t1", "t2">>
FieldOrder == <<"primary_key", "not_null_columns">>

\* A list written without its elements.
pickle_list_truncating(l) == <<Op("EMPTY_LIST", "")>>

pickle_list(l) ==
    <<Op("EMPTY_LIST", "")>> \o
    (IF l = <<>> THEN <<>>
     ELSE <<Op("MARK", "")>> \o [i \in 1..Len(l) |-> Op("STR", l[i])]
          \o <<Op("APPENDS", "")>>)

RECURSIVE pickle_fields(_, _)
pickle_fields(d, fs) ==
    IF fs = <<>> THEN <<>>
    ELSE <<Op("STR", Head(fs))>> \o pickle_list(d[Head(fs)]) \o pickle_fields(d, Tail(fs))

pickle_entry(d) ==
    <<Op("EMPTY_DICT", "")>> \o
    (IF DOMAIN d = {} THEN <<>>
     ELSE <<Op("MARK", "")>> \o pickle_fields(d, Filter(FieldOrder, DOMAIN d))
          \o <<Op("SETITEMS", "")>>)

RECURSIVE pickle_tables(_, _)
pickle_tables(c, ts) ==
    IF ts = <<>> THEN <<>>
    ELSE <<Op("STR", Head(ts))>> \o pickle_entry(c[Head(ts)]) \o pickle_tables(c, Tail(ts))

\* pickle.dump(self.cache, f): the bytes written.
pickle_dump(c) ==
    <<Op("EMPTY_DICT", "")>> \o
    (IF DOMAIN c = {} THEN <<>>
     ELSE <<Op("MARK", "")>> \o pickle_tables(c, Filter(TableOrder, DOMAIN c))
          \o <<Op("SETITEMS", "")>>)
    \o <<Op("STOP", "")>>

\* An item of the unpickler's stack.
Item(kind, val) == [kind |-> kind, val |-> val]

\* The index of the topmost MARK of the stack, 0 if there is none.
TopMark(st) ==
    LET ms == {i \in 1..Len(st) : st[i].kind = "mark"}
    IN IF ms = {} THEN 0 ELSE CHOOSE m \in ms : \A j \in ms : j <= m

\* d.update(pairs), pairs a sequence key, value, key, value, ...
RECURSIVE SetItems(_, _)
SetItems(d, items) ==
    IF Len(items) < 2 THEN d
    ELSE LET k == items[1].val
             v == items[2].val
             d2 == [x \in DOMAIN d \cup {k} |-> IF x = k THEN v ELSE d[x]]
         IN SetItems(d2, SubSeq(items, 3, Len(items)))

\* The unpickler: runs the opcodes from position i on stack st.
RECURSIVE Unpickle(_, _, _)
Unpickle(b, i, st) ==
    IF i > Len(b) THEN [ok |-> FALSE, value |-> EmptyDict]
    ELSE LET o == b[i]
             m == TopMark(st)
             batch == SubSeq(st, m + 1, Len(st))
             below == SubSeq(st, 1, m - 2)
         IN CASE o.op = "STOP" ->
                   IF Len(st) = 1 /\ st[1].kind = "dict"
                   THEN [ok |-> TRUE, value |-> st[1].val]
                   ELSE [ok |-> FALSE, value |-> EmptyDict]
              [] o.op = "EMPTY_DICT" -> Unpickle(b, i + 1, Append(st, Item("dict", EmptyDict)))
              [] o.op = "EMPTY_LIST" -> Unpickle(b, i + 1, Append(st, Item("list", <<>>)))
              [] o.op = "STR" -> Unpickle(b, i + 1, Append(st, Item("str", o.arg)))
              [] o.op = "MARK" -> Unpickle(b, i + 1, Append(st, Item("mark", "")))
              [] o.op = "APPENDS" ->
                   IF m < 2 \/ st[m - 1].kind # "list"
                   THEN [ok |-> FALSE, value |-> EmptyDict]
                   ELSE Unpickle(b, i + 1, Append(below,
                            Item("list", st[m - 1].val \o [j \in 1..Len(batch) |-> batch[j].val])))
              [] o.op = "SETITEMS" ->
                   IF m < 2 \/ st[m - 1].kind # "dict" \/ Len(batch) % 2 # 0
                   THEN [ok |-> FALSE, value |-> EmptyDict]
                   ELSE Unpickle(b, i + 1, Append(below,
                            Item("dict", SetItems(st[m - 1].val, batch))))
              [] OTHER -> [ok |-> FALSE, value |-> EmptyDict]

\* pickle.load(f): ok is FALSE when the bytes do not deserialize (pickle raises).
pickle_load(b) == Unpickle(b, 1, <<>>)

\* A cache file whose content is not a pickle (truncated or foreign bytes).
CorruptBlob == <<Op("EMPTY_DICT", ""), Op("MARK", ""), Op("STR", "t1")>>

\* The file 'db_cache.pkl' when it does not exist, and when it holds bytes b.
NoFile == [exists |-> FALSE, blob |-> <<>>]
FileOf(b) == [exists |-> TRUE, blob |-> b]


(***************************************************************************)
(* The native backend: tables with their declared primary key, columns    *)
(* and rows, and the statements the adapters send through the cursor.     *)
(***************************************************************************)
AbsentTable == [exists |-> FALSE, pk |-> <<>>, cols |-> {}, rows |-> <<>>]

\* The columns of the tables that execute() creates, in declaration order.
ColOrder == <<"id", "c1", "c2">>

\* The row a statement inserts: the columns it names, NULL elsewhere.
FullRow(T, cols, r) == [c \in T.cols |-> IF c \in Range(cols) THEN r[c] ELSE NULL]

\* Two rows collide on the table's primary key (NULL never collides).
SameKey(T, r1, r2) ==
    /\ T.pk # <<>>
    /\ \A c \in Range(T.pk) : r1[c] = r2[c] /\ r1[c] # NULL

\* A replace that carries the unnamed columns of the colliding row over to the new row.
replace_row_merging(T, cols, r) ==
    LET new == FullRow(T, cols, r)
        old == SelectSeq(T.rows, LAMBDA x : SameKey(T, x, new))
        merged == IF old = <<>> THEN new
                  ELSE [c \in T.cols |-> IF c \in Range(cols) THEN new[c] ELSE old[1][c]]
    IN [T EXCEPT !.rows = Append(SelectSeq(T.rows, LAMBDA x : ~SameKey(T, x, new)), merged)]

\* INSERT OR REPLACE of one row: the colliding row is deleted, the new row added.
replace_row(T, cols, r) ==
    LET new == FullRow(T, cols, r)
    IN [T EXCEPT !.rows = Append(SelectSeq(T.rows, LAMBDA x : ~SameKey(T, x, new)), new)]

\* A conflict update that overwrites the whole colliding row with the new one.
update_row_replacing(T, cols, update, r) ==
    LET new == FullRow(T, cols, r)
    IN IF \E i \in 1..Len(T.rows) : SameKey(T, T.rows[i], new)
       THEN [T EXCEPT !.rows = [i \in 1..Len(T.rows) |->
                IF SameKey(T, T.rows[i], new) THEN new ELSE T.rows[i]]]
       ELSE [T EXCEPT !.rows = Append(T.rows, new)]

\* INSERT .. ON CONFLICT (pk) DO UPDATE SET c = EXCLUDED.c for c in update.
update_row(T, cols, update, r) ==
    LET new == FullRow(T, cols, r)
    IN IF \E i \in 1..Len(T.rows) : SameKey(T, T.rows[i], new)
       THEN [T EXCEPT !.rows = [i \in 1..Len(T.rows) |->
                IF SameKey(T, T.rows[i], new)
                THEN [c \in T.cols |-> IF c \in update THEN new[c] ELSE T.rows[i][c]]
                ELSE T.rows[i]]]
       ELSE [T EXCEPT !.rows = Append(T.rows, new)]

RECURSIVE replace_rows(_, _, _)
replace_rows(T, cols, rows) ==
    IF rows = <<>> THEN T
    ELSE replace_rows(replace_row(T, cols, Head(rows)), cols, Tail(rows))

RECURSIVE update_rows(_, _, _, _)
update_rows(T, cols, update, rows) ==
    IF rows = <<>> THEN T
    ELSE update_rows(update_row(T, cols, update, Head(rows)), cols, update, Tail(rows))

\* The backend accepts an INSERT naming cols: the table and the columns exist.
insert_accepted(T, cols) == T.exists /\ Range(cols) \subseteq T.cols

\* The backend accepts INSERT .. ON CONFLICT (conflict) DO UPDATE SET update:
\* the conflict target is the table's key, the SET list is not empty, and the
\* key columns (NOT NULL) are given.
conflict_accepted(T, cols, conflict, update) ==
    /\ insert_accepted(T, cols)
    /\ T.pk # <<>>
    /\ Range(conflict) = Range(T.pk)
    /\ Range(T.pk) \subseteq Range(cols)
    /\ update # {}

(***************************************************************************)
(* pandas.  A DataFrame is its index names (<<>> for the unnamed           *)
(* RangeIndex), its columns and its rows; a dict is its keys and values.   *)
(***************************************************************************)
DataFrame(index_names, columns, rows) ==
    [kind |-> "DataFrame", index_names |-> index_names, columns |-> columns, rows |-> rows]

Dict(columns, rows) ==
    [kind |-> "dict", index_names |-> <<>>, columns |-> columns, rows |-> rows]

\* pd.DataFrame([data]): one row, the dict's keys as columns, no index name.
frame_of_dict(data) == DataFrame(<<>>, data.columns, data.rows)

\* An emptiness test that lets every batch through.
is_empty_never(data) == FALSE

\* df.empty / not data
is_empty(data) == data.rows = <<>>

\* df.reset_index() raises ValueError ("cannot insert id, already exists") when a
\* name of the index is also a column.
reset_index_ok(df) == Range(df.index_names) \cap Range(df.columns) = {}

\* df.reset_index().columns.tolist()
reset_index_columns(df) ==
    (IF df.index_names = <<>> THEN <<"index">> ELSE df.index_names) \o df.columns

\* df.reset_index().values.tolist(): an unnamed index becomes the column 'index'.
reset_index_rows(df) ==
    IF df.index_names # <<>> THEN df.rows
    ELSE [i \in 1..Len(df.rows) |->
            [c \in DOMAIN df.rows[i] \cup {"index"} |->
                IF c = "index" THEN "0" ELSE df.rows[i][c]]]

(***************************************************************************)
(* The adapter.  An operator takes and returns the record `a`: the         *)
(* attributes set on the adapter object, its in-memory cache, whether      *)
(* close() was called, the cache file, the tables, and what the call has   *)
(* done so far (log, raised, the value _get_primary_key returned).         *)
(***************************************************************************)
None == [none |-> TRUE, cols |-> <<>>]
Some(cols) == [none |-> FALSE, cols |-> cols]

\* `not x` for x the value _get_primary_key returned: None and [] are falsy.
Falsy(pk) == pk.none \/ pk.cols = <<>>

\* self.cursor.execute(..) reaches the backend.
cursor_ok(a) == "cursor" \in a.attrs /\ ~a.closed

Log(a, what) == [a EXCEPT !.log = Append(@, what)]

VARIABLES db_type, dm, attrs, cache, closed, file, tbl, last, peer

vars == <<db_type, dm, attrs, cache, closed, file, tbl, last, peer>>

\* The adapter and its environment, at the start of a call.
Adapter ==
    [attrs |-> attrs, cache |-> cache, closed |-> closed, file |-> file, tbl |-> tbl,
     log |-> <<>>, raised |-> FALSE, pk |-> None]

\* A save that reads the file back and merges its entries into what it writes.
save_cache_merging(a) ==
    IF "cache_file" \notin a.attrs \/ "cache" \notin a.attrs
    THEN [a EXCEPT !.raised = TRUE]
    ELSE LET old == IF a.file.exists /\ pickle_load(a.file.blob).ok
                    THEN pickle_load(a.file.blob).value ELSE EmptyDict
             merged == [x \in DOMAIN old \cup DOMAIN a.cache |->
                           IF x \in DOMAIN a.cache THEN a.cache[x] ELSE old[x]]
         IN [Log(a, "save") EXCEPT !.file = FileOf(pickle_dump(merged))]

\* with open(self.cache_file, 'wb') as f: pickle.dump(self.cache, f)
save_cache(a) ==
    IF "cache_file" \notin a.attrs \/ "cache" \notin a.attrs
    THEN [a EXCEPT !.raised = TRUE]
    ELSE [Log(a, "save") EXCEPT !.file = FileOf(pickle_dump(a.cache))]

\* self.cache[table_name]['primary_key'] = conflict_columns
cache_put(c, t, field, cols) ==
    LET entry == IF t \in DOMAIN c THEN c[t] ELSE EmptyDict
        entry2 == [f \in DOMAIN entry \cup {field} |-> IF f = field THEN cols ELSE entry[f]]
    IN [x \in DOMAIN c \cup {t} |-> IF x = t THEN entry2 ELSE c[x]]

\* The live primary-key discovery query of each backend.
sqlite_table_info(T) ==
    [ok |-> TRUE, cols |-> IF T.exists /\ T.pk # <<>> THEN <<T.pk[1]>> ELSE <<>>]

duck_table_info(T) ==
    [ok |-> T.exists, cols |-> IF T.exists THEN T.pk ELSE <<>>]

pg_key_column_usage(T) ==
    [ok |-> TRUE, cols |-> IF T.exists THEN T.pk ELSE <<>>]

table_info(T) ==
    CASE db_type = "sqlite" -> sqlite_table_info(T)
      [] db_type = "duckdb" -> duck_table_info(T)
      [] OTHER -> pg_key_column_usage(T)

\* _get_primary_key that records an empty key when the discovery fails.
get_primary_key_caching_failure(a, t) ==
    IF "cache" \notin a.attrs THEN [a EXCEPT !.raised = TRUE]
    ELSE IF t \in DOMAIN a.cache /\ "primary_key" \in DOMAIN a.cache[t]
    THEN [Log(a, "pk_cached") EXCEPT !.pk = Some(a.cache[t]["primary_key"])]
    ELSE LET q == IF cursor_ok(a) THEN table_info(a.tbl[t]) ELSE [ok |-> FALSE, cols |-> <<>>]
             b == IF cursor_ok(a) THEN Log(Log(a, "pk_live"), "discover") ELSE Log(a, "pk_live")
             s == save_cache([b EXCEPT !.cache = cache_put(a.cache, t, "primary_key", q.cols)])
         IN IF s.raised THEN [s EXCEPT !.raised = FALSE, !.pk = None]
            ELSE IF q.ok THEN [s EXCEPT !.pk = Some(q.cols)]
            ELSE [s EXCEPT !.pk = None]

\* _get_primary_key that trusts a cached key only when it is not empty.
get_primary_key_recheck_empty(a, t) ==
    IF "cache" \notin a.attrs THEN [a EXCEPT !.raised = TRUE]
    ELSE IF /\ t \in DOMAIN a.cache /\ "primary_key" \in DOMAIN a.cache[t]
            /\ a.cache[t]["primary_key"] # <<>>
    THEN [Log(a, "pk_cached") EXCEPT !.pk = Some(a.cache[t]["primary_key"])]
    ELSE IF ~cursor_ok(a) THEN [Log(a, "pk_live") EXCEPT !.pk = None]
    ELSE LET q == table_info(a.tbl[t])
             b == Log(Log(a, "pk_live"), "discover")
         IN IF ~q.ok THEN [b EXCEPT !.pk = None]
            ELSE LET s == save_cache([b EXCEPT !.cache = cache_put(a.cache, t, "primary_key", q.cols)])
                 IN IF s.raised THEN [s EXCEPT !.raised = FALSE, !.pk = None]
                    ELSE [s EXCEPT !.pk = Some(q.cols)]

\* _get_primary_key(table_name) of the three adapters.
get_primary_key(a, t) ==
    IF "cache" \notin a.attrs THEN [a EXCEPT !.raised = TRUE]
    ELSE IF t \in DOMAIN a.cache /\ "primary_key" \in DOMAIN a.cache[t]
    THEN [Log(a, "pk_cached") EXCEPT !.pk = Some(a.cache[t]["primary_key"])]
    ELSE IF ~cursor_ok(a) THEN [Log(a, "pk_live") EXCEPT !.pk = None]
    ELSE LET q == table_info(a.tbl[t])
             b == Log(Log(a, "pk_live"), "discover")
         IN IF ~q.ok THEN [b EXCEPT !.pk = None]
            ELSE LET s == save_cache([b EXCEPT !.cache = cache_put(a.cache, t, "primary_key", q.cols)])
                 IN IF s.raised THEN [s EXCEPT !.raised = FALSE, !.pk = None]
                    ELSE [s EXCEPT !.pk = Some(q.cols)]

\* The not-null discovery query of PostgresDB: the columns that are NOT NULL and
\* have no default, which for the tables of this model are the key columns.
pg_columns_not_null(T) ==
    [ok |-> TRUE, cols |-> IF T.exists THEN T.pk ELSE <<>>]

\* PostgresDB._get_not_null_columns(table_name): [] when the query fails.
get_not_null_columns(a, t) ==
    IF "cache" \notin a.attrs THEN [a EXCEPT !.raised = TRUE]
    ELSE IF t \in DOMAIN a.cache /\ "not_null_columns" \in DOMAIN a.cache[t]
    THEN [Log(a, "nn_cached") EXCEPT !.pk = Some(a.cache[t]["not_null_columns"])]
    ELSE IF ~cursor_ok(a) THEN [Log(a, "nn_live") EXCEPT !.pk = Some(<<>>)]
    ELSE LET q == pg_columns_not_null(a.tbl[t])
             b == Log(Log(a, "nn_live"), "discover")
             s == save_cache([b EXCEPT !.cache = cache_put(a.cache, t, "not_null_columns", q.cols)])
         IN IF s.raised THEN [s EXCEPT !.raised = FALSE, !.pk = Some(<<>>)]
            ELSE [s EXCEPT !.pk = Some(q.cols)]

\* cursor.execute("CREATE TABLE t (cols, PRIMARY KEY (pk))") inside try/except.
create_table(a, t, cols, pk, valid) ==
    IF ~cursor_ok(a) THEN a
    ELSE IF ~valid \/ a.tbl[t].exists THEN Log(a, "create")
    ELSE [Log(a, "create") EXCEPT
             !.tbl[t] = [exists |-> TRUE, pk |-> pk, cols |-> cols, rows |-> <<>>]]

\* _create_table_from_dataframe of SQLiteDB and of DuckDB.
create_table_from_dataframe(a, t, df) ==
    LET primary_keys == df.index_names
    IN IF primary_keys = <<>> THEN a
       ELSE create_table(a, t, Range(df.columns) \cup Range(primary_keys), primary_keys, TRUE)

\* _create_table_from_dataframe of PostgresDB: a key that is also a data column
\* is declared PRIMARY KEY twice, which the backend rejects.
pg_create_table_from_dataframe(a, t, df) ==
    LET primary_keys == df.index_names
    IN IF primary_keys = <<>> THEN a
       ELSE create_table(a, t, Range(df.columns) \cup Range(primary_keys), primary_keys,
                         Range(primary_keys) \cap Range(df.columns) = {})

\* cursor.execute / executemany of INSERT OR REPLACE, inside try/except.
insert_or_replace(a, t, cols, rows) ==
    IF ~cursor_ok(a) THEN a
    ELSE IF ~insert_accepted(a.tbl[t], cols) THEN Log(a, "insert")
    ELSE [Log(a, "insert") EXCEPT !.tbl[t] = replace_rows(a.tbl[t], cols, rows)]

\* cursor.execute / executemany of INSERT .. ON CONFLICT .. DO UPDATE, inside try/except.
insert_on_conflict(a, t, cols, rows, conflict, update) ==
    IF ~cursor_ok(a) THEN a
    ELSE IF ~conflict_accepted(a.tbl[t], cols, conflict, update) THEN Log(a, "insert")
    ELSE [Log(a, "insert") EXCEPT !.tbl[t] = update_rows(a.tbl[t], cols, update, rows)]

\* The step of every upsert that creates the table when the key lookup is falsy.
ensure_table(a, t, df) ==
    LET a1 == get_primary_key(a, t)
    IN IF a1.raised \/ ~Falsy(a1.pk) THEN a1
       ELSE IF db_type = "postgres" THEN pg_create_table_from_dataframe(a1, t, df)
       ELSE create_table_from_dataframe(a1, t, df)

\* SQLiteDB.upsert_from_dataframe
sqlite_upsert_from_dataframe(a, t, df) ==
    IF is_empty(df) THEN a
    ELSE LET a1 == ensure_table(a, t, df)
         IN IF a1.raised THEN a1
            ELSE IF ~reset_index_ok(df) THEN [a1 EXCEPT !.raised = TRUE]
            ELSE insert_or_replace(a1, t, reset_index_columns(df), reset_index_rows(df))

\* SQLiteDB.upsert_from_dict
sqlite_upsert_from_dict(a, t, data) ==
    IF is_empty(data) THEN a
    ELSE LET a1 == ensure_table(a, t, frame_of_dict(data))
         IN IF a1.raised THEN a1
            ELSE insert_or_replace(a1, t, data.columns, data.rows)

\* DuckDB.upsert_from_dataframe
duck_upsert_from_dataframe(a, t, df) ==
    IF is_empty(df) THEN a
    ELSE LET a1 == ensure_table(a, t, df)
             columns == reset_index_columns(df)
             a2 == get_primary_key(a1, t)
         IN IF a1.raised THEN a1
            ELSE IF ~reset_index_ok(df) THEN [a1 EXCEPT !.raised = TRUE]
            ELSE IF a2.raised \/ Falsy(a2.pk) THEN a2
            ELSE insert_on_conflict(a2, t, columns, reset_index_rows(df), a2.pk.cols,
                                    Range(columns) \ Range(a2.pk.cols))

\* DuckDB.upsert_from_dict
duck_upsert_from_dict(a, t, data) ==
    IF is_empty(data) THEN a
    ELSE LET a1 == ensure_table(a, t, frame_of_dict(data))
             a2 == get_primary_key(a1, t)
         IN IF a1.raised THEN a1
            ELSE IF a2.raised \/ Falsy(a2.pk) THEN a2
            ELSE insert_on_conflict(a2, t, data.columns, data.rows, a2.pk.cols,
                                    Range(data.columns) \ Range(a2.pk.cols))

\* PostgresDB.upsert_from_dataframe
pg_upsert_from_dataframe(a, t, df) ==
    IF is_empty(df) THEN a
    ELSE LET a1 == ensure_table(a, t, df)
             a2 == get_primary_key(a1, t)
         IN IF a1.raised THEN a1
            ELSE IF ~reset_index_ok(df) THEN [a1 EXCEPT !.raised = TRUE]
            ELSE IF a2.raised \/ Falsy(a2.pk) THEN a2
            ELSE insert_on_conflict(a2, t, reset_index_columns(df), reset_index_rows(df),
                                    a2.pk.cols, Range(df.columns) \ Range(a2.pk.cols))

\* PostgresDB.upsert_from_dict
pg_upsert_from_dict(a, t, data) ==
    IF is_empty(data) THEN a
    ELSE LET a1 == ensure_table(a, t, frame_of_dict(data))
             a2 == get_primary_key(a1, t)
         IN IF a1.raised THEN a1
            ELSE IF a2.raised \/ Falsy(a2.pk) THEN a2
            ELSE insert_on_conflict(a2, t, data.columns, data.rows, a2.pk.cols,
                                    Range(data.columns) \ Range(a2.pk.cols))

\* upsert(table_name, data) of the adapter the facade holds.
upsert(a, t, data) ==
    CASE data.kind = "DataFrame" /\ db_type = "sqlite" -> sqlite_upsert_from_dataframe(a, t, data)
      [] data.kind = "DataFrame" /\ db_type = "duckdb" -> duck_upsert_from_dataframe(a, t, data)
      [] data.kind = "DataFrame" /\ db_type = "postgres" -> pg_upsert_from_dataframe(a, t, data)
      [] data.kind = "dict" /\ db_type = "sqlite" -> sqlite_upsert_from_dict(a, t, data)
      [] data.kind = "dict" /\ db_type = "duckdb" -> duck_upsert_from_dict(a, t, data)
      [] data.kind = "dict" /\ db_type = "postgres" -> pg_upsert_from_dict(a, t, data)
      [] OTHER -> a

\* clear_cache(): self.cache = {}; self._save_cache()
clear_cache(a) ==
    save_cache([a EXCEPT !.cache = EmptyDict, !.attrs = @ \cup {"cache"}])

\* close(): self.cursor.close(); self.connection.close()
close(a) ==
    IF "cursor" \notin a.attrs \/ "connection" \notin a.attrs
    THEN [a EXCEPT !.raised = TRUE]
    ELSE [a EXCEPT !.closed = TRUE]

\* A command given to execute().
Command(kind, t) == [kind |-> kind, table |-> t, key |-> ""]

\* What the backend does with an accepted command.
run_command(tb, cmd) ==
    CASE cmd.kind = "create_pk" ->
            [tb EXCEPT ![cmd.table] = [exists |-> TRUE, pk |-> <<"id">>,
                                       cols |-> Range(ColOrder), rows |-> <<>>]]
      [] cmd.kind = "create_nopk" ->
            [tb EXCEPT ![cmd.table] = [exists |-> TRUE, pk |-> <<>>,
                                       cols |-> Range(ColOrder), rows |-> <<>>]]
      [] cmd.kind = "drop" -> [tb EXCEPT ![cmd.table] = AbsentTable]
      [] OTHER -> tb

\* The backend accepts the command.
command_accepted(tb, cmd) ==
    CASE cmd.kind \in {"create_pk", "create_nopk"} -> ~tb[cmd.table].exists
      [] cmd.kind = "drop" -> tb[cmd.table].exists
      [] cmd.kind = "select1" -> TRUE
      [] OTHER -> FALSE

\* execute() that drops the cached entry of the table an accepted command names.
execute_invalidating(a, cmd) ==
    IF ~cursor_ok(a) THEN a
    ELSE IF ~command_accepted(a.tbl, cmd) THEN Log(a, "execute")
    ELSE [Log(a, "execute") EXCEPT
             !.tbl = run_command(a.tbl, cmd),
             !.cache = [x \in DOMAIN a.cache \ {cmd.table} |-> a.cache[x]]]

\* execute(command): cursor.execute(command) inside try/except.
execute(a, cmd) ==
    IF ~cursor_ok(a) THEN a
    ELSE IF ~command_accepted(a.tbl, cmd) THEN Log(a, "execute")
    ELSE [Log(a, "execute") EXCEPT !.tbl = run_command(a.tbl, cmd)]

\* A statement given to query(): SELECT * FROM t [WHERE id = key], or a bad one.
Select(kind, t, key) == [kind |-> kind, table |-> t, key |-> key]

\* What query() returns.
NoResult == [kind |-> "None", columns |-> <<>>, rows |-> <<>>]

\* The backend executes the statement.
select_accepted(tb, q) ==
    /\ q.kind \in {"select_all", "select_key"}
    /\ tb[q.table].exists
    /\ q.kind = "select_key" => "id" \in tb[q.table].cols

\* The rows the statement matches.
select_rows(T, q) ==
    IF q.kind = "select_key" THEN SelectSeq(T.rows, LAMBDA r : r["id"] = q.key) ELSE T.rows

\* cursor.fetchall(): each row as the tuple of its values in column order.
fetchall(columns, rows) ==
    [i \in 1..Len(rows) |-> [j \in 1..Len(columns) |-> rows[i][columns[j]]]]

\* dict(zip(columns, row))
dict_zip(columns, row) ==
    [c \in Range(columns) |-> row[CHOOSE j \in 1..Len(columns) : columns[j] = c]]

\* A failed query() answered with an empty result instead of None.
query_failed_empty(a, q, return_type) ==
    IF return_type = "dict" THEN [kind |-> "list", columns |-> <<>>, rows |-> <<>>]
    ELSE [kind |-> "DataFrame", columns |-> <<>>, rows |-> <<>>]

\* The except branch of query(): print and return None.
query_failed(a, q, return_type) == NoResult

\* query(query, return_type): everything inside try/except, None on any exception.
query(a, q, return_type) ==
    IF ~cursor_ok(a) \/ ~select_accepted(a.tbl, q) THEN query_failed(a, q, return_type)
    ELSE LET T == a.tbl[q.table]
             columns == Filter(ColOrder, T.cols)
             rows == fetchall(columns, select_rows(T, q))
         IN CASE return_type = "pandas" ->
                    [kind |-> "DataFrame", columns |-> columns, rows |-> rows]
              [] return_type = "dict" ->
                    [kind |-> "list", columns |-> <<>>,
                     rows |-> [i \in 1..Len(rows) |-> dict_zip(columns, rows[i])]]
              [] OTHER -> NoResult

\* _load_cache(): {} when the file does not exist; pickle.load raises on bad bytes.
load_cache(f) ==
    IF f.exists THEN pickle_load(f.blob) ELSE [ok |-> TRUE, value |-> EmptyDict]

\* SQLiteDB.__init__ and DuckDB.__init__: cache_file, cache, connection, cursor are
\* set in this order inside one try/except that returns on any exception.
embedded_init(f, connect_ok) ==
    LET ld == load_cache(f)
    IN IF ~ld.ok
       THEN [attrs |-> {"cache_file"}, cache |-> EmptyDict, raised |-> FALSE]
       ELSE IF ~connect_ok
       THEN [attrs |-> {"cache_file", "cache"}, cache |-> ld.value, raised |-> FALSE]
       ELSE [attrs |-> {"cache_file", "cache", "connection", "cursor"},
             cache |-> ld.value, raised |-> FALSE]

\* PostgresDB.__init__: the connection is made inside try/except (return on
\* failure); the cache is loaded after it, outside any try.
pg_init(f, connect_ok) ==
    LET ld == load_cache(f)
    IN IF ~connect_ok
       THEN [attrs |-> {}, cache |-> EmptyDict, raised |-> FALSE]
       ELSE IF ~ld.ok
       THEN [attrs |-> {"connection", "cursor", "cache_file"}, cache |-> EmptyDict,
             raised |-> TRUE]
       ELSE [attrs |-> {"connection", "cursor", "cache_file", "cache"},
             cache |-> ld.value, raised |-> FALSE]

\* DatabaseManager.__init__ without the os.path.exists test of the sqlite branch.
manager_init_unchecked(kind, path_exists, f, connect_ok) ==
    CASE kind = "sqlite" -> embedded_init(f, connect_ok)
      [] kind = "postgres" ->
            IF ~path_exists THEN [attrs |-> {}, cache |-> EmptyDict, raised |-> TRUE]
            ELSE pg_init(f, connect_ok)
      [] kind = "duckdb" -> embedded_init(f, connect_ok)
      [] OTHER -> [attrs |-> {}, cache |-> EmptyDict, raised |-> TRUE]

\* DatabaseManager.__init__ whose adapter names its cache file after its own
\* database, so that it finds no file left by an adapter of another database.
manager_init_own_file(kind, path_exists, f, connect_ok) ==
    CASE kind = "sqlite" ->
            IF ~path_exists THEN [attrs |-> {}, cache |-> EmptyDict, raised |-> TRUE]
            ELSE embedded_init(NoFile, connect_ok)
      [] kind = "postgres" ->
            IF ~path_exists THEN [attrs |-> {}, cache |-> EmptyDict, raised |-> TRUE]
            ELSE pg_init(NoFile, connect_ok)
      [] kind = "duckdb" -> embedded_init(NoFile, connect_ok)
      [] OTHER -> [attrs |-> {}, cache |-> EmptyDict, raised |-> TRUE]

\* DatabaseManager.__init__: "raise" before any adapter is built, else the adapter.
manager_init(kind, path_exists, f, connect_ok) ==
    CASE kind = "sqlite" ->
            IF ~path_exists THEN [attrs |-> {}, cache |-> EmptyDict, raised |-> TRUE]
            ELSE embedded_init(f, connect_ok)
      [] kind = "postgres" ->
            IF ~path_exists THEN [attrs |-> {}, cache |-> EmptyDict, raised |-> TRUE]
            ELSE pg_init(f, connect_ok)
      [] kind = "duckdb" -> embedded_init(f, connect_ok)
      [] OTHER -> [attrs |-> {}, cache |-> EmptyDict, raised |-> TRUE]

\* DatabaseManager.is_db_available(): hasattr(self, 'db') and self.db is truthy.
is_db_available == dm = "ready"

(***************************************************************************)
(* The inputs of the calls.  Table t1 is the keyed table and receives      *)
(* every input below; t2 is the table that execute() creates without a    *)
(* primary key, and receives one fixed row without a designated key.       *)
(***************************************************************************)
ColumnSets == {<<"c1">>, <<"c1", "c2">>}

\* A row with key k: v in column c1 and, where the data has it, "z" in column c2.
Row(cols, k, v) ==
    [c \in Range(cols) \cup {"id"} |-> IF c = "id" THEN k ELSE IF c = "c1" THEN v ELSE "z"]

\* The keys of a batch: one row, or one row per key.
KeySeqs == {s \in {<<k>> : k \in Keys} \cup {<<"5", "6">>} : Len(s) <= MaxRows}

\* DataFrames with the index named 'id' and the data columns c1, c2.
KeyedFrames ==
    {DataFrame(<<"id">>, <<"c1", "c2">>,
               [i \in 1..Len(ks) |-> Row(<<"c1", "c2">>, ks[i], v)]) :
        ks \in KeySeqs, v \in Vals}

\* A DataFrame with the default, unnamed index.
UnkeyedFrames == {DataFrame(<<>>, <<"id", "c1">>, <<Row(<<"c1">>, "5", "a")>>)}

\* A DataFrame whose index 'id' was kept as a column: df.set_index('id', drop=False).
SelfKeyedFrames == {DataFrame(<<"id">>, <<"id", "c1">>, <<Row(<<"c1">>, "5", "a")>>)}

Dicts ==
    {Dict(<<"id">> \o cols, <<Row(cols, "5", v)>>) : cols \in ColumnSets, v \in Vals}

EmptyData == {DataFrame(<<"id">>, <<"c1", "c2">>, <<>>), Dict(<<>>, <<>>)}

UpsertData == KeyedFrames \cup UnkeyedFrames \cup SelfKeyedFrames \cup Dicts \cup EmptyData

DataFor(t) ==
    IF t = "t1" THEN UpsertData
    ELSE {Dict(<<"id", "c1">>, <<Row(<<"c1">>, "5", "a")>>)} \cup UnkeyedFrames

Commands ==
    {Command(k, "t1") : k \in {"create_pk", "drop"}}
    \cup {Command(k, "t2") : k \in {"create_nopk", "drop"}}
    \cup {Command("select1", ""), Command("bad", "")}

Selects ==
    {Select("select_all", "t1", "")}
    \cup {Select("select_key", "t1", "6")}
    \cup {Select("bad", "", "")}

ReturnTypes == {"pandas", "dict", "json"}

(***************************************************************************)
(* The actions: one per public call on the facade.                         *)
(***************************************************************************)
\* A second process in the same working directory, before it has built its
\* facade: its own adapter state and its own database, and no file of its own.
NoPeer ==
    [dm |-> "none", attrs |-> {}, cache |-> EmptyDict, closed |-> FALSE,
     tbl |-> [t \in Tables |-> AbsentTable], last |-> "start"]

Init ==
    /\ db_type \in Backends
    /\ dm = "none"
    /\ attrs = {}
    /\ cache = EmptyDict
    /\ closed = FALSE
    /\ file \in {NoFile, FileOf(CorruptBlob)}
    /\ tbl = [t \in Tables |-> AbsentTable]
    /\ last = [op |-> "start", raised |-> FALSE, result |-> NoResult]
    /\ peer = NoPeer

\* The state a call leaves, and what the caller saw of it.
Commit(a, op, result) ==
    /\ \A x \in Tables : Len(a.tbl[x].rows) <= MaxRows
    /\ attrs' = a.attrs
    /\ cache' = a.cache
    /\ closed' = a.closed
    /\ file' = a.file
    /\ tbl' = a.tbl
    /\ last' = [op |-> op, raised |-> a.raised, result |-> result]
    /\ UNCHANGED peer

\* DatabaseManager(db_type=kind, ...), in a fresh process.
Construct(kind, path_exists, connect_ok) ==
    LET r == manager_init(kind, path_exists, file, connect_ok)
    IN /\ dm' = IF r.raised THEN "none" ELSE "ready"
       /\ attrs' = r.attrs
       /\ cache' = r.cache
       /\ closed' = FALSE
       /\ last' = [op |-> "construct", raised |-> r.raised, result |-> NoResult]
       /\ UNCHANGED <<db_type, file, tbl, peer>>

\* DatabaseManager.upsert(table_name, data)
Upsert(t, data) ==
    /\ is_db_available
    /\ \E a \in {upsert(Adapter, t, data)} : Commit(a, "upsert", NoResult)
    /\ UNCHANGED <<db_type, dm>>

\* DatabaseManager.query(query, return_type)
Query(q, return_type) ==
    /\ is_db_available
    /\ \E result \in {query(Adapter, q, return_type)} : Commit(Adapter, "query", result)
    /\ UNCHANGED <<db_type, dm>>

\* DatabaseManager.execute(command)
Execute(cmd) ==
    /\ is_db_available
    /\ \E a \in {execute(Adapter, cmd)} : Commit(a, "execute", NoResult)
    /\ UNCHANGED <<db_type, dm>>

\* DatabaseManager.clear_cache()
ClearCache ==
    /\ dm = "ready"
    /\ \E a \in {clear_cache(Adapter)} : Commit(a, "clear_cache", NoResult)
    /\ UNCHANGED <<db_type, dm>>

\* DatabaseManager.close()
Close ==
    /\ dm = "ready"
    /\ \E a \in {close(Adapter)} : Commit(a, "close", NoResult)
    /\ UNCHANGED <<db_type, dm>>

Next ==
    \/ \E kind \in {db_type, "mysql"}, path_exists \in BOOLEAN, connect_ok \in BOOLEAN :
          Construct(kind, path_exists, connect_ok)
    \/ \E t \in Tables : \E data \in DataFor(t) : Upsert(t, data)
    \/ \E q \in Selects, return_type \in ReturnTypes : Query(q, return_type)
    \/ \E cmd \in Commands : Execute(cmd)
    \/ ClearCache
    \/ Close

Spec == Init /\ [][Next]_vars

(***************************************************************************)
(* Two processes in one working directory.  Every adapter names its cache  *)
(* file 'db_cache.pkl', so the second process, whose facade is built for   *)
(* another database of the same kind, reads and writes the same file.      *)
(***************************************************************************)

\* The adapter of the second process and its environment, at the start of a call.
PeerAdapter ==
    [attrs |-> peer.attrs, cache |-> peer.cache, closed |-> peer.closed, file |-> file,
     tbl |-> peer.tbl, log |-> <<>>, raised |-> FALSE, pk |-> None]

\* The state a call of the second process leaves.
PeerCommit(a, op) ==
    /\ \A x \in Tables : Len(a.tbl[x].rows) <= MaxRows
    /\ peer' = [peer EXCEPT !.attrs = a.attrs, !.cache = a.cache, !.closed = a.closed,
                            !.tbl = a.tbl, !.last = op]
    /\ file' = a.file
    /\ UNCHANGED <<db_type, dm, attrs, cache, closed, tbl, last>>

\* DatabaseManager(db_type, ...) in the second process, for its own database.
PeerConstruct ==
    LET r == manager_init(db_type, TRUE, file, TRUE)
    IN /\ peer' = [peer EXCEPT !.dm = IF r.raised THEN "none" ELSE "ready",
                               !.attrs = r.attrs, !.cache = r.cache, !.closed = FALSE,
                               !.last = "construct"]
       /\ UNCHANGED <<db_type, dm, attrs, cache, closed, file, tbl, last>>

\* DatabaseManager.upsert(table_name, data) in the second process.
PeerUpsert(t, data) ==
    /\ peer.dm = "ready"
    /\ \E a \in {upsert(PeerAdapter, t, data)} : PeerCommit(a, "upsert")

\* The batches the two processes upsert: one row, indexed by the key column.
SharedFrames == {f \in KeyedFrames : f.rows = <<Row(<<"c1", "c2">>, "5", "a")>>}

NextShared ==
    \/ Construct(db_type, TRUE, TRUE)
    \/ Execute(Command("create_pk", "t1"))
    \/ \E t \in Tables : \E data \in SharedFrames : Upsert(t, data)
    \/ PeerConstruct
    \/ \E t \in Tables : \E data \in SharedFrames : PeerUpsert(t, data)

SpecShared == Init /\ [][NextShared]_vars

(***************************************************************************)
(* One adapter whose caller issues no DDL: construction, upsert, query and *)
(* clear_cache only.                                                       *)
(***************************************************************************)
NextNoDDL ==
    \/ \E connect_ok \in BOOLEAN : Construct(db_type, TRUE, connect_ok)
    \/ \E t \in Tables : \E data \in DataFor(t) : Upsert(t, data)
    \/ \E q \in Selects, return_type \in ReturnTypes : Query(q, return_type)
    \/ ClearCache

SpecNoDDL == Init /\ [][NextNoDDL]_vars

(***************************************************************************)
(* The properties.  A property of one call is a property of the step that  *)
(* the call takes; what the call sent to the backend is read from the log  *)
(* of the operator applied to the state before the step.                   *)
(***************************************************************************)

\* The facade holds an adapter that has its cache and an open cursor.
Connected == dm = "ready" /\ cursor_ok(Adapter) /\ "cache" \in attrs

\* The adapter and its environment, at the end of a step.
AdapterNext ==
    [attrs |-> attrs', cache |-> cache', closed |-> closed', file |-> file', tbl |-> tbl',
     log |-> <<>>, raised |-> FALSE, pk |-> None]

\* The data is one row that carries the key column id: a DataFrame indexed by id
\* (with id not among its columns as well), or a dict with the key 'id'.
OneKeyedRow(d) ==
    /\ Len(d.rows) = 1
    /\ \/ d.index_names = <<"id">> /\ "id" \notin Range(d.columns)
       \/ d.kind = "dict" /\ "id" \in Range(d.columns)

\* The rows of table T with key k.
RowsWithKey(T, k) == SelectSeq(T.rows, LAMBDA r : r["id"] = k)

\* C1: on each adapter, from an empty metadata cache and a database without table
\* T, one upsert of a non-empty batch whose index names the key column creates T
\* with that key as primary key and leaves T holding exactly the rows of the batch.
C1_FreshUpsertCreatesAndFills ==
    [][\A t \in Tables : \A df \in DataFor(t) :
          ( /\ Connected
            /\ cache = EmptyDict
            /\ ~tbl[t].exists
            /\ df.kind = "DataFrame" /\ df.index_names = <<"id">> /\ ~is_empty(df)
            /\ "id" \notin Range(df.columns)
            /\ Upsert(t, df) )
          => ( /\ tbl'[t].exists
               /\ tbl'[t].pk = <<"id">>
               /\ Len(tbl'[t].rows) = Len(df.rows)
               /\ Range(tbl'[t].rows) = Range(df.rows) )]_vars

\* C2: on every adapter and in every cache state, after two successive upserts of
\* a row with the same key into a table whose primary key is that key column, the
\* table holds exactly one row with that key and every non-key column supplied in
\* the second call carries the second call's value.
C2_SecondUpsertWins ==
    [][\A t \in Tables : \A d1 \in DataFor(t) :
          ( /\ Connected
            /\ OneKeyedRow(d1)
            /\ Upsert(t, d1)
            /\ tbl'[t].exists /\ tbl'[t].pk = <<"id">> )
          => \A d2 \in DataFor(t) :
                ( /\ OneKeyedRow(d2)
                  /\ d2.rows[1]["id"] = d1.rows[1]["id"]
                  /\ Range(d2.columns) \subseteq tbl'[t].cols )
                => LET after == upsert(AdapterNext, t, d2).tbl[t]
                       hits == RowsWithKey(after, d2.rows[1]["id"])
                   IN /\ Len(hits) = 1
                      /\ \A c \in Range(d2.columns) \ {"id"} :
                            hits[1][c] = d2.rows[1][c]]_vars

\* C3: on every adapter, for a table without a primary key (absent, or existing
\* without one), upsert of non-empty data that carries no designated key column (a
\* DataFrame with an unnamed index, or a dict) creates nothing and inserts
\* nothing: the database contents are the same after the call as before it.
C3_NoKeyColumnNoMutation ==
    [][\A t \in Tables : \A d \in DataFor(t) :
          ( /\ Connected
            /\ ~tbl[t].exists \/ tbl[t].pk = <<>>
            /\ ~is_empty(d) /\ d.index_names = <<>>
            /\ Upsert(t, d) )
          => tbl' = tbl]_vars

\* C4: on all three adapters, when the primary-key lookup for the target table
\* yields no key columns (no usable cached entry, and live discovery of the table
\* the upsert works on returns empty or fails), the upsert is abandoned: no INSERT
\* is sent to the backend and no row of the table changes.
C4_NoConflictColumnsAbandons ==
    [][\A t \in Tables : \A d \in DataFor(t) :
          ( /\ Connected
            /\ ~is_empty(d)
            /\ t \in DOMAIN cache => "primary_key" \in DOMAIN cache[t]
                                     /\ cache[t]["primary_key"] = <<>>
            /\ IF tbl[t].exists THEN tbl[t].pk = <<>> ELSE d.index_names = <<>>
            /\ Upsert(t, d) )
          => ( /\ "insert" \notin Range(upsert(Adapter, t, d).log)
               /\ tbl'[t].rows = tbl[t].rows )]_vars

\* The adapter the facade holds was built without its native connection: the
\* constructor got as far as connecting (past the cache load, on the adapters that
\* load the cache first) and the connection was refused.
ConnectionFailed ==
    /\ dm = "ready"
    /\ "connection" \notin attrs
    /\ db_type = "postgres" \/ "cache" \in attrs

\* C5: when the native connection could not be established at construction, the
\* construction of DatabaseManager still completes, every later upsert and
\* execute is a no-op that does not raise, query returns None without raising,
\* and no call brings the connection back; on all three backends.
C5_UnavailableCallsAreSilent ==
    [][/\ Construct(db_type, TRUE, FALSE) => (dm' = "ready" /\ ~last'.raised)
       /\ ( /\ ConnectionFailed
            /\ \/ \E t \in Tables : \E d \in DataFor(t) : Upsert(t, d)
               \/ \E cmd \in Commands : Execute(cmd)
               \/ \E q \in Selects, return_type \in ReturnTypes : Query(q, return_type) )
          => ( /\ ~last'.raised
               /\ last'.result = NoResult
               /\ tbl' = tbl
               /\ "connection" \notin attrs' )]_vars

\* C6: construction with a cache file that is missing or that fails to
\* deserialize yields, on SQLiteDB, DuckDB and PostgresDB, an adapter whose
\* in-memory cache is the empty map, with no error surfaced to the caller and with
\* the native connection established.
C6_BadCacheFileYieldsEmptyCache ==
    [][( /\ ~file.exists \/ ~pickle_load(file.blob).ok
         /\ Construct(db_type, TRUE, TRUE) )
       => ( /\ dm' = "ready"
            /\ ~last'.raised
            /\ "cache" \in attrs' /\ cache' = EmptyDict
            /\ "connection" \in attrs' )]_vars

\* C7: after clear_cache() the in-memory cache and the persisted cache file are
\* both the empty map, and the next primary-key lookup for any table goes to the
\* backend's schema instead of returning a value cached before the clear.
C7_ClearCacheForcesDiscovery ==
    [][ClearCache
       => ( /\ "cache" \in attrs' /\ cache' = EmptyDict
            /\ load_cache(file') = [ok |-> TRUE, value |-> EmptyDict]
            /\ \A t \in Tables :
                  LET lookup == get_primary_key(AdapterNext, t)
                  IN /\ lookup.log # <<>>
                     /\ lookup.log[1] = "pk_live"
                     /\ cursor_ok(AdapterNext) => "discover" \in Range(lookup.log) )]_vars

\* C8: cache round trip.  After a discovery has stored the metadata of a table
\* (the upsert put an entry for the table into the cache and saved the cache), a
\* freshly constructed adapter that loads the same cache file holds an equal entry
\* for that table and for every other table of the cache.
C8_CacheRoundTrip ==
    [][(last'.op = "upsert" /\ DOMAIN cache' # DOMAIN cache)
       => \A t \in DOMAIN cache' \ DOMAIN cache : \A d \in DataFor(t) :
             ( /\ Upsert(t, d)
               /\ "save" \in Range(upsert(Adapter, t, d).log) )
             => \A connect_ok \in {c \in BOOLEAN : db_type = "postgres" => c} :
                   \A fresh \in {manager_init(db_type, TRUE, file', connect_ok)} :
                      /\ ~fresh.raised
                      /\ "cache" \in fresh.attrs
                      /\ t \in DOMAIN fresh.cache
                      /\ fresh.cache = cache']_vars

\* A freshly constructed adapter holds the entries of two tables, one with a key.
C8_Witness ==
    /\ last.op = "construct" /\ ~last.raised
    /\ "cache" \in attrs
    /\ DOMAIN cache = Tables
    /\ cache["t1"]["primary_key"] = <<"id">>
    /\ cache["t2"]["primary_key"] = <<>>

\* C9: execute(command) leaves the in-memory metadata cache and the persisted
\* cache file unchanged for every command, accepted or rejected by the backend,
\* on all three adapters and through the facade.
C9_ExecuteKeepsCache ==
    [][last'.op = "execute"
       => \A cmd \in Commands : Execute(cmd) => (cache' = cache /\ file' = file)]_vars

\* An accepted DROP TABLE has left the dropped table's key in the cache.
C9_Witness ==
    /\ last.op = "execute" /\ ~last.raised
    /\ "t1" \in DOMAIN cache
    /\ cache["t1"]["primary_key"] = <<"id">>
    /\ ~tbl["t1"].exists
    /\ load_cache(file) = [ok |-> TRUE, value |-> cache]

\* C10: query never raises and its result tells failure from emptiness: a
\* statement that executes returns every matching row in full, an empty table
\* ('pandas') or an empty sequence ('dict') when it matches no row, while a
\* statement the backend fails and an invalid return_type return None.
C10_QueryNoneOrComplete ==
    [][last'.op = "query"
       => \A q \in Selects, return_type \in ReturnTypes :
          Query(q, return_type)
          => LET res == last'.result
                 failed == \/ ~cursor_ok(Adapter)
                           \/ q.kind = "bad"
                           \/ ~tbl[q.table].exists
                 T == tbl[q.table]
                 matching == IF q.kind = "select_key" THEN RowsWithKey(T, q.key)
                             ELSE T.rows
             IN /\ ~last'.raised
                /\ tbl' = tbl
                /\ (failed \/ return_type \notin {"pandas", "dict"}) => res.kind = "None"
                /\ (~failed /\ return_type = "pandas")
                    => /\ res.kind = "DataFrame"
                       /\ Range(res.columns) = T.cols
                       /\ Len(res.rows) = Len(matching)
                       /\ \A i \in 1..Len(matching) : \A j \in 1..Len(res.columns) :
                             res.rows[i][j] = matching[i][res.columns[j]]
                /\ (~failed /\ return_type = "dict")
                    => /\ res.kind = "list"
                       /\ res.rows = matching]_vars

\* A query that matched none of the rows of a table returned an empty table.
C10_Witness ==
    /\ last.op = "query" /\ ~last.raised
    /\ last.result.kind = "DataFrame"
    /\ last.result.rows = <<>>
    /\ tbl["t1"].rows # <<>>

\* C11: constructing DatabaseManager raises, with no adapter built and before any
\* connection attempt, when db_type is none of 'sqlite', 'postgres', 'duckdb', and
\* when db_type is 'sqlite' or 'postgres' and the db_file / config_file does not
\* exist; for 'duckdb' the file is not looked for and the adapter is constructed.
C11_ConstructionRaisesEarly ==
    [][last'.op = "construct"
       => \A kind \in {db_type, "mysql"}, path_exists \in BOOLEAN, connect_ok \in BOOLEAN :
             Construct(kind, path_exists, connect_ok)
             => /\ (kind \notin Backends \/ (kind \in {"sqlite", "postgres"} /\ ~path_exists))
                   => ( /\ last'.raised
                        /\ dm' = "none"
                        /\ attrs' = {}
                        /\ manager_init(kind, path_exists, file, ~connect_ok).raised )
                /\ kind = "duckdb"
                   => ( /\ ~last'.raised
                        /\ dm' = "ready"
                        /\ "cache_file" \in attrs'
                        /\ attrs' = embedded_init(file, connect_ok).attrs )]_vars

\* A construction raised and built no adapter, over a database that is in use.
C11_Witness ==
    /\ last.op = "construct" /\ last.raised
    /\ dm = "none" /\ attrs = {}
    /\ tbl["t1"].exists

\* C12: upsert with empty data (an empty DataFrame or an empty dict) returns
\* without raising and does nothing at all: no discovery query, no CREATE TABLE,
\* no INSERT, and the in-memory cache and the cache file are as before.
C12_EmptyUpsertIsNoOp ==
    [][last'.op = "upsert"
       => \A t \in Tables : \A d \in DataFor(t) :
             (d.rows = <<>> /\ Upsert(t, d))
             => ( /\ ~last'.raised
                  /\ upsert(Adapter, t, d).log = <<>>
                  /\ cache' = cache /\ file' = file
                  /\ tbl' = tbl /\ attrs' = attrs )]_vars

\* An upsert returned normally on an adapter that has no cache attribute, where
\* every upsert that gets as far as the key lookup raises: the data were empty.
C12_Witness ==
    /\ last.op = "upsert" /\ ~last.raised
    /\ dm = "ready" /\ "cache" \notin attrs

\* C13: on an adapter whose connection was established, upsert of a batch or of a
\* single row never raises to its caller: a backend failure in the key discovery,
\* in CREATE TABLE or in the INSERT is caught inside the call.
C13_UpsertNeverRaises ==
    [][last'.op = "upsert"
       => \A t \in Tables : \A d \in DataFor(t) :
             ("connection" \in attrs /\ Upsert(t, d)) => ~last'.raised]_vars

\* The discovery query for table t fails on adapter a: the cursor is missing or
\* closed, or (DuckDB) the PRAGMA names a table that does not exist.
DiscoveryFails(a, t) ==
    /\ "cache" \in a.attrs
    /\ ~cursor_ok(a) \/ (db_type = "duckdb" /\ ~a.tbl[t].exists)

\* C14: when the primary-key discovery (on Postgres also the not-null discovery)
\* for a table fails, the in-memory cache and the cache file are left exactly as
\* they were: no entry, not even an empty one, is made for the table, and the
\* entries of the other tables are untouched.
C14_FailedDiscoveryLeavesCache ==
    [][/\ \A t \in Tables :
            (DiscoveryFails(Adapter, t)
             /\ ~(t \in DOMAIN cache /\ "primary_key" \in DOMAIN cache[t]))
            => \A r \in {get_primary_key(Adapter, t)} :
                  /\ ~r.raised /\ r.pk = None
                  /\ r.cache = cache /\ r.file = file
       /\ \A t \in Tables :
            (db_type = "postgres" /\ DiscoveryFails(Adapter, t))
            => \A r \in {get_not_null_columns(Adapter, t)} :
                  /\ ~r.raised /\ r.pk = Some(<<>>)
                  /\ r.cache = cache /\ r.file = file
       /\ last'.op = "upsert"
          => \A t \in Tables : \A d \in DataFor(t) :
                ( /\ DiscoveryFails(Adapter, t) /\ DiscoveryFails(AdapterNext, t)
                  /\ Upsert(t, d) )
                => (cache' = cache /\ file' = file)]_vars

\* On DuckDB an upsert returned while table t1 does not exist and has no entry in
\* a cache that holds the entry of another table.
C14_Witness ==
    /\ db_type = "duckdb" /\ Connected
    /\ last.op = "upsert" /\ ~last.raised
    /\ ~tbl["t1"].exists /\ "t1" \notin DOMAIN cache
    /\ "t2" \in DOMAIN cache
    /\ load_cache(file) = [ok |-> TRUE, value |-> cache]

\* C15: when the native connection could not be established at construction,
\* DatabaseManager.clear_cache and DatabaseManager.close are no-ops as well and do
\* not raise, on all three backends.
C15_UnavailableClearAndCloseAreSilent ==
    [][(ConnectionFailed /\ (ClearCache \/ Close))
       => ( /\ ~last'.raised
            /\ tbl' = tbl /\ closed' = closed )]_vars

\* C16: for one adapter that is the only user of its cache file, after every
\* completed public operation (construction, upsert, query, execute, clear_cache)
\* the cache file, read by load, equals the in-memory cache.
C16_FileEqualsCache ==
    ( /\ dm = "ready" /\ "cache" \in attrs
      /\ last.op \in {"construct", "upsert", "query", "execute", "clear_cache"}
      /\ ~last.raised )
    => load_cache(file) = [ok |-> TRUE, value |-> cache]

\* The cache holds a primary_key entry for table t.
KeyCached(c, t) == t \in DOMAIN c /\ "primary_key" \in DOMAIN c[t]

\* C17: once the cache holds a primary_key entry for a table, no upsert, query or
\* execute call on that adapter changes or removes the entry or issues another
\* discovery query for the table, even when the key of the table in the database
\* has changed since; only clear_cache removes it.
C17_CachedKeyIsKept ==
    [][(last'.op \in {"upsert", "query", "execute"} /\ "cache" \in attrs)
       => /\ \A t \in Tables :
                KeyCached(cache, t) => (KeyCached(cache', t) /\ cache'[t] = cache[t])
          /\ last'.op = "upsert"
             => \A t \in Tables : \A d \in DataFor(t) :
                   (KeyCached(cache, t) /\ Upsert(t, d))
                   => \A a \in {upsert(Adapter, t, d)} :
                         /\ "pk_live" \notin Range(a.log)
                         /\ "discover" \notin Range(a.log)]_vars

\* An upsert has run while the cache holds the key of a table that was dropped.
C17_Witness ==
    /\ last.op = "upsert" /\ ~last.raised
    /\ Connected
    /\ KeyCached(cache, "t1") /\ cache["t1"]["primary_key"] = <<"id">>
    /\ ~tbl["t1"].exists

\* Every row of the batch d is in table T with the values the batch gives it.
HoldsBatch(T, d) ==
    \A i \in 1..Len(d.rows) :
        \E r \in Range(T.rows) :
            \A c \in Range(reset_index_columns(d)) : r[c] = d.rows[i][c]

\* C18: when the CREATE TABLE an upsert issues is rejected because the table
\* already exists with a primary key the cache does not know, the upsert goes on:
\* it issues its INSERT and the incoming rows are in the existing table afterwards,
\* on all three adapters.
C18_RejectedCreateStillUpserts ==
    [][last'.op = "upsert"
       => \A t \in Tables : \A d \in DataFor(t) :
             ( /\ Connected
               /\ tbl[t].exists /\ tbl[t].pk # <<>>
               /\ d.kind = "DataFrame" /\ reset_index_ok(d)
               /\ Range(reset_index_columns(d)) \subseteq tbl[t].cols
               /\ Upsert(t, d) )
             => \A a \in {upsert(Adapter, t, d)} :
                   "create" \in Range(a.log)
                   => ( /\ ~last'.raised
                        /\ "insert" \in Range(a.log)
                        /\ HoldsBatch(tbl'[t], d) )]_vars

\* How many statements of kind k the log holds.
Issued(log, k) == Len(SelectSeq(log, LAMBDA e : e = k))

\* C19: an upsert call issues at most one CREATE TABLE statement, and none when
\* the cache holds primary-key metadata for the target table before the call (so
\* that a sequence of upserts to one table issues CREATE TABLE at most once).
C19_CreateIssuedAtMostOnce ==
    [][last'.op = "upsert"
       => \A t \in Tables : \A d \in DataFor(t) :
             (Connected /\ (d.kind = "DataFrame" => reset_index_ok(d)) /\ Upsert(t, d))
             => \A a \in {upsert(Adapter, t, d)} :
                   /\ Issued(a.log, "create") <= 1
                   /\ KeyCached(cache, t) => Issued(a.log, "create") = 0]_vars

\* The columns the INSERT of an upsert names: the keys of a dict, the index and
\* the columns of a DataFrame.
IncomingColumns(d) == IF d.kind = "dict" THEN d.columns ELSE reset_index_columns(d)

\* Row r of table T has the key of the incoming row x.
KeyMatches(T, r, x) == \A c \in Range(T.pk) : r[c] = x[c]

\* C20: on the conflict-update adapters (DuckDB, Postgres), an upsert whose key
\* matches an existing row changes in that row exactly the incoming columns that
\* are not primary-key columns: the key columns and the columns absent from the
\* incoming data keep their values, and every row with another key is unchanged.
C20_UpdateTouchesOnlyIncomingColumns ==
    [][(last'.op = "upsert" /\ db_type \in {"duckdb", "postgres"})
       => \A t \in Tables : \A d \in DataFor(t) :
             ( /\ Connected
               /\ tbl[t].pk # <<>>
               /\ ~is_empty(d)
               /\ d.kind = "DataFrame" => reset_index_ok(d)
               /\ Range(IncomingColumns(d)) \subseteq tbl[t].cols
               /\ \E j \in 1..Len(tbl[t].rows) :
                     \E i \in 1..Len(d.rows) : KeyMatches(tbl[t], tbl[t].rows[j], d.rows[i])
               /\ Upsert(t, d) )
             => /\ ~last'.raised
                /\ Len(tbl'[t].rows) >= Len(tbl[t].rows)
                /\ \A j \in 1..Len(tbl[t].rows) :
                      \A old \in {tbl[t].rows[j]} : \A new \in {tbl'[t].rows[j]} :
                         /\ \A i \in 1..Len(d.rows) :
                               KeyMatches(tbl[t], old, d.rows[i])
                               => \A c \in tbl[t].cols :
                                     new[c] = IF c \in Range(IncomingColumns(d)) \ Range(tbl[t].pk)
                                              THEN d.rows[i][c] ELSE old[c]
                         /\ (\A i \in 1..Len(d.rows) : ~KeyMatches(tbl[t], old, d.rows[i]))
                            => new = old]_vars

\* After an upsert on a conflict-update adapter the table holds the row with key
\* 5, c1 = b and c2 = z, in front of the untouched row with key 6.
C20_Witness ==
    /\ db_type \in {"duckdb", "postgres"}
    /\ last.op = "upsert" /\ ~last.raised
    /\ Len(tbl["t1"].rows) = 2
    /\ tbl["t1"].rows[1] = [id |-> "5", c1 |-> "b", c2 |-> "z"]
    /\ tbl["t1"].rows[2] = [id |-> "6", c1 |-> "a", c2 |-> "z"]

\* The upsert of batch d into table t is a key-matching case: the adapter is
\* connected, the table has a key, the batch fits the table and its row i has
\* the key of row j of the table.
MatchingUpsert(t, d, i, j) ==
    /\ Connected
    /\ tbl[t].pk # <<>>
    /\ ~is_empty(d)
    /\ d.kind = "DataFrame" => reset_index_ok(d)
    /\ Range(IncomingColumns(d)) \subseteq tbl[t].cols
    /\ i \in 1..Len(d.rows) /\ j \in 1..Len(tbl[t].rows)
    /\ KeyMatches(tbl[t], tbl[t].rows[j], d.rows[i])

\* C21: on the SQLite adapter an upsert whose key matches an existing row replaces
\* the entire row: afterwards the table holds one row with that key, with the
\* incoming values and NULL in every column absent from the incoming data; on
\* DuckDB and Postgres such a column keeps its previous value.
C21_SqliteReplacesWholeRow ==
    [][last'.op = "upsert"
       => \A t \in Tables : \A d \in DataFor(t) :
             \A i \in 1..Len(d.rows) : \A j \in 1..Len(tbl[t].rows) :
                (MatchingUpsert(t, d, i, j) /\ Upsert(t, d))
                => \A absent \in {tbl[t].cols \ Range(IncomingColumns(d))} :
                      \A old \in {tbl[t].rows[j]} :
                         \A found \in {SelectSeq(tbl'[t].rows,
                                                 LAMBDA r : KeyMatches(tbl[t], r, d.rows[i]))} :
                            /\ ~last'.raised
                            /\ Len(found) = 1
                            /\ db_type = "sqlite"
                               => \A c \in tbl[t].cols :
                                     found[1][c] = IF c \in absent THEN NULL ELSE d.rows[i][c]
                            /\ db_type \in {"duckdb", "postgres"}
                               => \A c \in absent : found[1][c] = old[c]]_vars

\* After an upsert on SQLite the row with key 5 holds NULL in c2, behind the row
\* with key 6 that holds c2 = z.
C21_Witness ==
    /\ db_type = "sqlite"
    /\ last.op = "upsert" /\ ~last.raised
    /\ Len(tbl["t1"].rows) = 2
    /\ tbl["t1"].rows[1] = [id |-> "6", c1 |-> "a", c2 |-> "z"]
    /\ tbl["t1"].rows[2] = [id |-> "5", c1 |-> "b", c2 |-> NULL]

\* The one-row DataFrame with the column names and values of the dict data, its
\* key column id as the index: pd.DataFrame([data]).set_index('id').
IndexedFrameOf(data) ==
    DataFrame(<<"id">>, SelectSeq(data.columns, LAMBDA c : c # "id"), data.rows)

\* C22: on each adapter, the upsert of a dict and the upsert of a one-row DataFrame
\* with the same column names and values, started from the same database and
\* cache state, end in the same database and cache state, also when the target
\* table does not exist yet.
C22_DictAndFrameUpsertAgree ==
    [][last'.op = "upsert"
       => \A t \in Tables : \A d \in DataFor(t) :
             ( /\ Connected
               /\ d.kind = "dict" /\ ~is_empty(d)
               /\ IndexedFrameOf(d) \in DataFor(t)
               /\ Upsert(t, d) )
             => \A a \in {upsert(Adapter, t, IndexedFrameOf(d))} :
                   /\ ~last'.raised /\ ~a.raised
                   /\ tbl' = a.tbl
                   /\ cache' = a.cache]_vars

\* The cache the file holds holds a primary_key entry for table t.
FileHolds(f, t) ==
    \E ld \in {load_cache(f)} : ld.ok /\ KeyCached(ld.value, t)

\* C23: two adapter instances that loaded the same cache file hold independent
\* snapshots and write without locking: when the first instance has cached and
\* persisted metadata for table T1, and the second, whose snapshot was loaded
\* before that write, then caches and persists metadata for table T2, the file
\* holds T2 and no entry for T1 afterwards.
C23_SecondWriterDropsFirstEntry ==
    [][peer'.last = "upsert"
       => \A t1 \in Tables : \A t2 \in Tables \ {t1} : \A d \in SharedFrames :
             ( /\ KeyCached(cache, t1) /\ FileHolds(file, t1)
               /\ ~KeyCached(peer.cache, t1) /\ ~KeyCached(peer.cache, t2)
               /\ PeerUpsert(t2, d)
               /\ KeyCached(peer'.cache, t2) )
             => ( /\ file' # file
                  /\ FileHolds(file', t2)
                  /\ ~FileHolds(file', t1)
                  /\ KeyCached(cache', t1) )]_vars

\* The lost update: the first instance holds the entry for t1 that it persisted,
\* the second instance has persisted its entry for t2, and the file holds t2 only.
C23_Witness ==
    /\ peer.last = "upsert"
    /\ KeyCached(cache, "t1") /\ ~KeyCached(peer.cache, "t1")
    /\ KeyCached(peer.cache, "t2")
    /\ FileHolds(file, "t2") /\ ~FileHolds(file, "t1")

\* C24: the cache file name is the constant 'db_cache.pkl' for every adapter and
\* every target database: an adapter constructed for database Y after another
\* adapter has cached and persisted a primary key for table T of database X
\* answers its primary-key lookup for T with X's cached key, without any
\* discovery query against Y.
C24_ForeignKeyServedFromSharedFile ==
    [][peer'.last = "construct"
       => \A t \in Tables :
             ( /\ KeyCached(cache, t) /\ FileHolds(file, t)
               /\ load_cache(file).value[t] = cache[t]
               /\ PeerConstruct
               /\ peer'.dm = "ready" )
             => \A a \in {get_primary_key([PeerAdapter EXCEPT !.attrs = peer'.attrs,
                                                             !.cache = peer'.cache], t)} :
                   /\ ~a.raised
                   /\ a.pk = Some(cache[t]["primary_key"])
                   /\ a.log = <<"pk_cached">>
                   /\ a.file = file /\ a.cache = peer'.cache]_vars

\* The second adapter was constructed for a database without table t1 and holds
\* the key that the first adapter discovered for t1 in its own database.
C24_Witness ==
    /\ peer.last = "construct" /\ peer.dm = "ready"
    /\ tbl["t1"].exists /\ tbl["t1"].pk = <<"id">>
    /\ KeyCached(cache, "t1") /\ cache["t1"]["primary_key"] = <<"id">>
    /\ ~peer.tbl["t1"].exists
    /\ KeyCached(peer.cache, "t1") /\ peer.cache["t1"] = cache["t1"]

\* C25: in every state reached from an empty cache by upsert, query and
\* clear_cache calls on one adapter, without DDL through execute or from outside,
\* every primary_key entry of the cache equals the primary-key column list of
\* that table in the database; in particular, after an upsert has created table
\* T, the cached entry for T is T's declared key and not an empty list.
C25_CacheMatchesCatalog ==
    ("cache" \in attrs /\ ~last.raised)
    => \A t \in Tables :
          KeyCached(cache, t) => cache[t]["primary_key"] = tbl[t].pk

\* C26: once DatabaseManager.close() has completed, the facade never returns to
\* a connected state: every later upsert and execute on it changes neither the
\* database nor the metadata cache and does not raise, and every later query
\* returns None.
C26_ClosedFacadeStaysInert ==
    [][(closed /\ last'.op # "construct")
       => /\ closed' /\ ~cursor_ok(AdapterNext)
          /\ last'.op \in {"upsert", "execute"}
             => (tbl' = tbl /\ cache' = cache /\ ~last'.raised)
          /\ last'.op = "query" => last'.result = NoResult]_vars

====
